---- MODULE Spec2Model ----
(***************************************************************************)
(* Model of the query-safety gate (_safe_sql), the SQL text extractor      *)
(* (extract_sql_query) and the LangGraph agent workflow that calls them.    *)
(*                                                                         *)
(* Text representation.  A Python str is modelled as a sequence of atoms.  *)
(* An atom is a short run of characters that the code's patterns treat as  *)
(* a unit: a keyword in one letter case ("SELECT", "select", "DROP"), one  *)
(* identifier character ("x"), one digit ("1", "5"), one white-space       *)
(* character (" ", "\n"), one punctuation mark (";", ","), ...  The str a  *)
(* sequence stands for is the concatenation of its atoms.  The atoms are   *)
(* chosen so that no pattern of the code can match across an atom border   *)
(* other than as written below (no keyword is spelled by neighbouring      *)
(* atoms: "x" occurs in no keyword), so the operators below compute on     *)
(* atoms exactly what the Python code computes on characters.              *)
(***************************************************************************)
EXTENDS Integers, Sequences, FiniteSets, TLC

(***************************************************************************)
(* Bounds of the model.                                                    *)
(***************************************************************************)
MaxLen == 5          \* longest candidate handed to the gate, in atoms
MaxRawLen == 2       \* longest answer of the language model, in atoms
MaxBodyLen == 5      \* longest text after the leading "SELECT " of a
                     \* candidate built to exercise the row cap, in atoms
MaxExtractLen == 5   \* longest text handed to the extractor, in atoms
MaxCommentLen == 8   \* longest text made of comment delimiters only that is
                     \* handed to the extractor, in atoms
MaxCallLen == 2      \* longest argument of a concurrent call, in atoms
MaxWordLen == 4      \* longest select list made of keywords, identifier
                     \* characters and quotes, in atoms

(***************************************************************************)
(* Character classes of atoms.                                             *)
(***************************************************************************)
\* str.isspace characters (what str.strip removes and \s matches)
Whitespace == {" ", "\n", "\t"}

\* \d
Digits == {"1", "5"}

\* mutant: the denylist with one keyword forgotten
DenyWords_without_drop ==
    {"INSERT", "UPDATE", "DELETE", "ALTER", "CREATE", "REPLACE", "TRUNCATE"}

\* the alternatives of DENY_RE, upper-cased
DenyWords == {"INSERT", "UPDATE", "DELETE", "ALTER", "DROP", "CREATE",
              "REPLACE", "TRUNCATE"}

\* str.lower on one atom
lower(a) ==
    CASE a \in {"SELECT", "Select"}  -> "select"
      [] a \in {"DROP", "Drop"}      -> "drop"
      [] a = "DELETE"                -> "delete"
      [] a = "LIMIT"                 -> "limit"
      [] a = "UNSAFE"                -> "unsafe"
      [] a = "SQL"                   -> "sql"
      [] a = "X"                     -> "x"
      [] a = "Error"                 -> "error"
      [] a = "DML"                   -> "dml"
      [] a = "DDL"                   -> "ddl"
      [] a = "Only"                  -> "only"
      [] OTHER                       -> a

\* str.upper on one atom, for the atoms re.I compares with DENY_RE
upper(a) ==
    CASE a \in {"drop", "Drop"}      -> "DROP"
      [] a = "delete"                -> "DELETE"
      [] OTHER                       -> a

\* atoms made of \w characters only (letters, digits, underscore)
IsWord(a) ==
    \/ lower(a) \in {"select", "drop", "delete", "limit", "unsafe", "sql", "x", "_"}
    \/ a \in Digits

(***************************************************************************)
(* Python str methods, on sequences of atoms.                              *)
(***************************************************************************)
RECURSIVE lstrip(_)
lstrip(s) ==
    IF s # <<>> /\ Head(s) \in Whitespace THEN lstrip(Tail(s)) ELSE s

RECURSIVE rstripSet(_, _)
rstripSet(s, chars) ==
    IF s # <<>> /\ s[Len(s)] \in chars
    THEN rstripSet(SubSeq(s, 1, Len(s) - 1), chars)
    ELSE s

\* q.strip()
strip(s) == rstripSet(lstrip(s), Whitespace)

\* q.rstrip(";")
rstrip(s, c) == rstripSet(s, {c})

\* q.count(";")
count(s, c) == Cardinality({i \in 1..Len(s) : s[i] = c})

\* q.endswith(";")
endswith(s, c) == s # <<>> /\ s[Len(s)] = c

\* ";" in q[:-1]
InAllButLast(s, c) == \E i \in 1..(Len(s) - 1) : s[i] = c

\* q.lower()
lowerStr(s) == [i \in 1..Len(s) |-> lower(s[i])]

\* q.lower().startswith("select")
startswith(s, w) == s # <<>> /\ s[1] = w

(***************************************************************************)
(* The two compiled patterns of safe_query_analyzer.py.                    *)
(***************************************************************************)
\* \b at the border between s[i-1] and s[i] (i = 1 and i = Len(s)+1 are the
\* ends of the string): exactly one side is a \w character.
WordBoundary(s, i) ==
    LET before == i > 1 /\ IsWord(s[i - 1])
        after  == i <= Len(s) /\ IsWord(s[i])
    IN before # after

\* mutant: the pattern compiled without re.I
DENY_RE_search_case_sensitive(s) ==
    \E i \in 1..Len(s) :
        /\ s[i] \in DenyWords
        /\ WordBoundary(s, i)
        /\ WordBoundary(s, i + 1)

\* mutant: DENY_RE.match(q), which only looks at the start of q
DENY_RE_match(s) ==
    /\ s # <<>>
    /\ upper(s[1]) \in DenyWords
    /\ WordBoundary(s, 2)

\* mutant: the pattern compiled without its two \b
DENY_RE_search_no_boundary(s) ==
    \E i \in 1..Len(s) : upper(s[i]) \in DenyWords

\* DENY_RE.search(q): some denylisted word, in any letter case, stands
\* between two word boundaries.
DENY_RE_search(s) ==
    \E i \in 1..Len(s) :
        /\ upper(s[i]) \in DenyWords
        /\ WordBoundary(s, i)
        /\ WordBoundary(s, i + 1)

\* s[i..j] is a non-empty run of atoms of the class cls
RunOf(s, i, j, cls) == i <= j /\ \A k \in i..j : s[k] \in cls

\* s[i..j] is a possibly empty run of atoms of the class cls
RunOrEmpty(s, i, j, cls) == \A k \in i..j : s[k] \in cls

\* (\s*,\s*\d+)? followed by \s*;?\s*$ , matched against s[i..Len(s)]
LimitRest(s, i) ==
    LET n == Len(s)
        \* \s*;?\s*$ on s[k..n]
        Tail_(k) ==
            \/ RunOrEmpty(s, k, n, Whitespace)
            \/ \E p \in k..n : /\ s[p] = ";"
                               /\ RunOrEmpty(s, k, p - 1, Whitespace)
                               /\ RunOrEmpty(s, p + 1, n, Whitespace)
    IN \/ Tail_(i)
       \/ \E c \in i..n, d \in i..n :
            /\ c < d
            /\ s[c] = ","
            /\ RunOrEmpty(s, i, c - 1, Whitespace)
            /\ \E e \in (c + 1)..d :
                 /\ RunOrEmpty(s, c + 1, e - 1, Whitespace)
                 /\ RunOf(s, e, d, Digits)
            /\ Tail_(d + 1)

\* mutant: the pattern compiled without the i flag
HAS_LIMIT_TAIL_RE_search_case_sensitive(s) ==
    \E i \in 1..Len(s) :
        /\ s[i] = "limit"
        /\ WordBoundary(s, i)
        /\ WordBoundary(s, i + 1)
        /\ \E a \in (i + 1)..Len(s), b \in (i + 1)..Len(s) :
             /\ a < b
             /\ RunOf(s, i + 1, a, Whitespace)
             /\ RunOf(s, a + 1, b, Digits)
             /\ LimitRest(s, b + 1)

\* HAS_LIMIT_TAIL_RE.search(q): \blimit\b\s+\d+(\s*,\s*\d+)?\s*;?\s*$
HAS_LIMIT_TAIL_RE_search(s) ==
    \E i \in 1..Len(s) :
        /\ lower(s[i]) = "limit"
        /\ WordBoundary(s, i)
        /\ WordBoundary(s, i + 1)
        /\ \E a \in (i + 1)..Len(s), b \in (i + 1)..Len(s) :
             /\ a < b
             /\ RunOf(s, i + 1, a, Whitespace)
             /\ RunOf(s, a + 1, b, Digits)
             /\ LimitRest(s, b + 1)

(***************************************************************************)
(* The three rejection messages and the appended row cap.                  *)
(***************************************************************************)
\* "Error: multiple statements are not allowed."
ErrMultipleStatements ==
    <<"Error", ":", " ", "multiple", " ", "statements", " ", "are", " ",
      "not", " ", "allowed", ".">>

\* mutant: the message without its "Error: " prefix
ErrNotASelect_without_prefix ==
    <<"only", " ", "SELECT", " ", "statements", " ", "are", " ", "allowed",
      ".">>

\* "Error: only SELECT statements are allowed."
ErrNotASelect ==
    <<"Error", ":", " ", "only", " ", "SELECT", " ", "statements", " ",
      "are", " ", "allowed", ".">>

\* "Error: DML/DDL detected. Only read-only queries are permitted."
ErrForbiddenKeyword ==
    <<"Error", ":", " ", "DML", "/", "DDL", " ", "detected", ".", " ",
      "Only", " ", "read", "-", "only", " ", "queries", " ", "are", " ",
      "permitted", ".">>

\* mutant: "LIMIT5" appended, the number glued to the keyword
LimitSuffix_digit_glued == <<" ", "LIMIT", "5">>

\* mutant: another cap appended
LimitSuffix_limit_1 == <<" ", "LIMIT", " ", "1">>

\* " LIMIT 5"
LimitSuffix == <<" ", "LIMIT", " ", "5">>

(***************************************************************************)
(* _safe_sql: the gate.  Returns a rejection message or the normalized     *)
(* query.                                                                  *)
(***************************************************************************)
\* mutant: the q.count(";") > 1 disjunct left out
IsMultiStatement_no_count(q) == endswith(q, ";") /\ InAllButLast(q, ";")

\* mutant: any ';' at all counts as a second statement
IsMultiStatement_any_semicolon(q) == count(q, ";") > 0

\* the multi-statement test of line 10
IsMultiStatement(q) ==
    count(q, ";") > 1 \/ (endswith(q, ";") /\ InAllButLast(q, ";"))

\* mutant: the row cap is never appended
_safe_sql_never_appends(q0) ==
    LET q1 == strip(q0)
    IN IF IsMultiStatement(q1)
       THEN ErrMultipleStatements
       ELSE LET q2 == strip(rstrip(q1, ";"))
            IN IF ~startswith(lowerStr(q2), "select")
               THEN ErrNotASelect
               ELSE IF DENY_RE_search(q2)
               THEN ErrForbiddenKeyword
               ELSE q2

\* mutant: the denylist scan moved before the statement-kind test
_safe_sql_denylist_first(q0) ==
    LET q1 == strip(q0)
    IN IF IsMultiStatement(q1)
       THEN ErrMultipleStatements
       ELSE LET q2 == strip(rstrip(q1, ";"))
            IN IF DENY_RE_search(q2)
               THEN ErrForbiddenKeyword
               ELSE IF ~startswith(lowerStr(q2), "select")
               THEN ErrNotASelect
               ELSE IF ~HAS_LIMIT_TAIL_RE_search(q2)
               THEN q2 \o LimitSuffix
               ELSE q2

_safe_sql(q0) ==
    LET q1 == strip(q0)
    IN IF IsMultiStatement(q1)
       THEN ErrMultipleStatements
       ELSE LET q2 == strip(rstrip(q1, ";"))
            IN IF ~startswith(lowerStr(q2), "select")
               THEN ErrNotASelect
               ELSE IF DENY_RE_search(q2)
               THEN ErrForbiddenKeyword
               ELSE IF ~HAS_LIMIT_TAIL_RE_search(q2)
               THEN q2 \o LimitSuffix
               ELSE q2

(***************************************************************************)
(* extract_sql_query: the extractor.  The atom "FENCE" stands for the      *)
(* three backquotes of a markdown code fence, a line comment opens with    *)
(* the atom "--", a block comment is written with the                      *)
(* one-character atoms "/" and "*", an escaped newline is the two-         *)
(* character atom "\\n".                                                   *)
(***************************************************************************)
\* bytes(llm_output, "utf-8").decode("unicode_escape"), run only when the
\* text holds an escaped newline or tab (lines 17-18)
unicode_escape(s) ==
    IF \E i \in 1..Len(s) : s[i] \in {"\\n", "\\t"}
    THEN [i \in 1..Len(s) |->
            CASE s[i] = "\\n" -> "\n"
              [] s[i] = "\\t" -> "\t"
              [] OTHER        -> s[i]]
    ELSE s

\* re.sub(r"(?i)^```sql\s*", "", s)
StripOpeningFence(s) ==
    IF Len(s) >= 2 /\ s[1] = "FENCE" /\ lower(s[2]) = "sql"
    THEN lstrip(SubSeq(s, 3, Len(s)))
    ELSE s

\* re.sub(r"(?i)```$", "", s), on a trimmed s
StripClosingFence(s) ==
    IF s # <<>> /\ s[Len(s)] = "FENCE"
    THEN SubSeq(s, 1, Len(s) - 1)
    ELSE s

\* the alternatives of the header pattern of line 28
HeaderLabels == {"sql", "generated sql query", "query output", "here is your sql"}

\* re.sub(r"(?i)^(sql|generated sql query|query output|here is your sql):?\s*", "", s)
StripHeader(s) ==
    IF s # <<>> /\ lower(s[1]) \in HeaderLabels
    THEN LET r == Tail(s)
         IN lstrip(IF r # <<>> /\ Head(r) = ":" THEN Tail(r) ELSE r)
    ELSE s

\* index of the last atom of the line that holds s[i] (the atom before the
\* next "\n", or the last atom of s)
RECURSIVE LineEnd(_, _)
LineEnd(s, i) ==
    IF i >= Len(s) \/ s[i + 1] = "\n" THEN i ELSE LineEnd(s, i + 1)

\* index of the first atom at or after i that is not white space (Len(s)+1
\* when there is none)
RECURSIVE SkipSpace(_, _)
SkipSpace(s, i) ==
    IF i <= Len(s) /\ s[i] \in Whitespace THEN SkipSpace(s, i + 1) ELSE i

\* re.sub(r"(?m)^\s*--.*$", "", s), scanning from index i
RECURSIVE SubWholeLineComments(_, _)
SubWholeLineComments(s, i) ==
    IF i > Len(s) THEN <<>>
    ELSE LET j == SkipSpace(s, i)
         IN IF /\ (i = 1 \/ s[i - 1] = "\n")
               /\ j <= Len(s)
               /\ s[j] = "--"
            THEN SubWholeLineComments(s, LineEnd(s, j) + 1)
            ELSE <<s[i]>> \o SubWholeLineComments(s, i + 1)

\* re.sub(r"--.*", "", s), scanning from index i
RECURSIVE SubTrailingComments(_, _)
SubTrailingComments(s, i) ==
    IF i > Len(s) THEN <<>>
    ELSE IF s[i] = "--"
         THEN SubTrailingComments(s, LineEnd(s, i) + 1)
         ELSE <<s[i]>> \o SubTrailingComments(s, i + 1)

\* index of the "/" of the first "*/" that starts at or after i (0 when
\* there is none)
RECURSIVE BlockClose(_, _)
BlockClose(s, i) ==
    IF i + 1 > Len(s) THEN 0
    ELSE IF s[i] = "*" /\ s[i + 1] = "/" THEN i + 1
    ELSE BlockClose(s, i + 1)

\* re.sub(r"/\*.*?\*/", "", s, flags=re.DOTALL), scanning from index i
RECURSIVE SubBlockComments(_, _)
SubBlockComments(s, i) ==
    IF i > Len(s) THEN <<>>
    ELSE IF /\ i + 1 <= Len(s)
            /\ s[i] = "/" /\ s[i + 1] = "*"
            /\ BlockClose(s, i + 2) # 0
         THEN SubBlockComments(s, BlockClose(s, i + 2) + 1)
         ELSE <<s[i]>> \o SubBlockComments(s, i + 1)

\* "\n".join(line for line in s.splitlines() if line.strip()), scanning
\* from index i, which starts a line; first tells that no line was kept yet
RECURSIVE DropBlankLines(_, _, _)
DropBlankLines(s, i, first) ==
    IF i > Len(s) THEN <<>>
    ELSE IF s[i] = "\n" THEN DropBlankLines(s, i + 1, first)
    ELSE LET e    == LineEnd(s, i)
             line == SubSeq(s, i, e)
         IN IF strip(line) = <<>>
            THEN DropBlankLines(s, e + 2, first)
            ELSE (IF first THEN <<>> ELSE <<"\n">>) \o line
                     \o DropBlankLines(s, e + 2, FALSE)

extract_sql_query(llm_output, strip_comments) ==
    LET s1 == unicode_escape(llm_output)
        s2 == StripOpeningFence(strip(s1))
        s3 == StripClosingFence(strip(s2))
        s4 == StripHeader(strip(s3))
        s5 == SubWholeLineComments(s4, 1)
        s6 == SubTrailingComments(s5, 1)
        s7 == SubBlockComments(s6, 1)
        s8 == DropBlankLines(s7, 1, TRUE)
    IN strip(IF strip_comments THEN s8 ELSE s4)

(***************************************************************************)
(* State.                                                                  *)
(***************************************************************************)
VARIABLES
    \* one direct call of the gate
    candidate,          \* the argument q of the call of _safe_sql
    verdict,            \* what that call returned (<<>> before it returns)
    gate_pc,            \* "called" before the call returns, "returned" after,
                        \* "idle" when no direct call is modelled
    \* one direct call of the extractor
    extract_arg,        \* the argument llm_output of the call
    extract_strip,      \* the argument strip_comments of the call
    extract_ret,        \* what the call returned (<<>> before it returns)
    extract_pc,         \* "called", "returned" or "idle", as gate_pc
    \* the agent and one process_query run of its workflow
    node,               \* the node the graph runs next, "END" at the end,
                        \* "idle" when no run is modelled
    query_runner,       \* self.query_runner is set (TRUE) or None (FALSE)
    modules_importable, \* the imports of lines 266-267 succeed
    messages,           \* len(state["messages"])
    raw_sql_query,
    cleaned_sql_query,
    validation_result,
    execution_result,
    execution_data_json,
    error_message,
    current_step,
    is_complete,
    retry_count,
    response,           \* what process_query returns
    \* the database boundary
    db_call,            \* the arguments of the query_runner.run calls made by
                        \* the step just taken (<<>> when it made none)
    run_calls,          \* number of query_runner.run calls of the run so far
    db_event,           \* what happened at the database during the last
                        \* query_runner.run call ("none" before the first)
    \* request handlers that call the gate and the extractor concurrently
    call_op,            \* per handler: the function it calls
    call_arg,           \* per handler: the argument of its call
    call_pc,            \* per handler: the statement its call runs next
    frame_q,            \* per frame: the local q (gate) or llm_output
                        \* (extractor) of the call that owns the frame
    call_ret,           \* per handler: what its call returned
    \* one call of RedshiftSQLTool._run
    run_sql,            \* the argument sql_query
    run_pc,             \* the statement the call runs next
    run_conn,           \* the local conn is set (TRUE) or None (FALSE)
    run_tunnel,         \* the local tunnel is set (TRUE) or None (FALSE)
    tunnel_state,       \* the SSH tunnel: "none", "started" or "stopped"
    conn_state,         \* the database connection: "none", "open", "closed"
    run_ret             \* the kind of str the call returned ("" before)

gate_vars == <<candidate, verdict, gate_pc>>

extract_vars == <<extract_arg, extract_strip, extract_ret, extract_pc>>

agent_vars == <<node, query_runner, modules_importable, messages,
                raw_sql_query, cleaned_sql_query, validation_result,
                execution_result, execution_data_json, error_message,
                current_step, is_complete, retry_count, response,
                db_call, run_calls, db_event>>

handler_vars == <<call_op, call_arg, call_pc, frame_q, call_ret>>

runner_vars == <<run_sql, run_pc, run_conn, run_tunnel, tunnel_state,
                 conn_state, run_ret>>

vars == <<gate_vars, extract_vars, agent_vars, handler_vars, runner_vars>>

\* all sequences of at most n atoms of the set S
SeqsUpTo(S, n) == UNION {[1..k -> S] : k \in 0..n}

\* the atoms candidates are built from
GateAlphabet == {"SELECT", "select", "DROP", "drop", "x", " ", ";", "LIMIT", "1"}

\* the atoms the language model's answers are built from
FlowAlphabet == {"SELECT", "DROP", "x", " ", ";", "unsafe", "--"}

\* process_query's initial_state (lines 481-496), before any node has run
InitialState ==
    /\ raw_sql_query = <<>>
    /\ cleaned_sql_query = <<>>
    /\ validation_result = [is_safe |-> FALSE, safety_message |-> <<>>,
                            has_syntax_errors |-> FALSE, present |-> FALSE]
    /\ execution_result = ""
    /\ execution_data_json = ""
    /\ error_message = ""
    /\ current_step = "initialized"
    /\ is_complete = FALSE
    /\ retry_count = 0
    /\ response = [status |-> "pending", error |-> ""]
    /\ db_call = <<>>
    /\ run_calls = 0
    /\ db_event = "none"

\* the request handlers
Handlers == {1, 2}

\* no concurrent handlers are modelled
NoHandlerCalls ==
    /\ call_op = [h \in Handlers |-> "idle"]
    /\ call_arg = [h \in Handlers |-> <<>>]
    /\ call_pc = [h \in Handlers |-> "idle"]
    /\ frame_q = [h \in Handlers |-> <<>>]
    /\ call_ret = [h \in Handlers |-> <<>>]

\* no direct call of RedshiftSQLTool._run is modelled
NoRunnerCall ==
    /\ run_sql = <<>>
    /\ run_pc = "idle"
    /\ run_conn = FALSE
    /\ run_tunnel = FALSE
    /\ tunnel_state = "none"
    /\ conn_state = "none"
    /\ run_ret = ""

(***************************************************************************)
(* The gate called on an arbitrary candidate.                              *)
(***************************************************************************)
\* no direct call of the extractor is modelled
NoExtractCall ==
    /\ extract_arg = <<>>
    /\ extract_strip = FALSE
    /\ extract_ret = <<>>
    /\ extract_pc = "idle"

\* no process_query run is modelled
NoWorkflowRun ==
    /\ node = "idle"
    /\ query_runner = FALSE
    /\ modules_importable = TRUE
    /\ messages = 1
    /\ InitialState

GateInit ==
    /\ candidate \in SeqsUpTo(GateAlphabet, MaxLen)
    /\ verdict = <<>>
    /\ gate_pc = "called"
    /\ NoExtractCall
    /\ NoWorkflowRun
    /\ NoHandlerCalls
    /\ NoRunnerCall

Validate ==
    /\ gate_pc = "called"
    /\ verdict' = _safe_sql(candidate)
    /\ gate_pc' = "returned"
    /\ UNCHANGED <<candidate, extract_vars, agent_vars, handler_vars,
                   runner_vars>>

GateNext == Validate

SpecGate == GateInit /\ [][GateNext]_vars

(***************************************************************************)
(* The gate called on a candidate that starts with "SELECT " and goes on   *)
(* with the atoms of a row cap: LIMIT in two letter cases, a digit, a      *)
(* comma.                                                                  *)
(***************************************************************************)
\* the atoms that follow the leading "SELECT "
LimitAlphabet == {" ", "LIMIT", "limit", "1", ",", ";", "x"}

LimitInit ==
    /\ candidate \in {<<"SELECT", " ">> \o body :
                         body \in SeqsUpTo(LimitAlphabet, MaxBodyLen)}
    /\ verdict = <<>>
    /\ gate_pc = "called"
    /\ NoExtractCall
    /\ NoWorkflowRun
    /\ NoHandlerCalls
    /\ NoRunnerCall

SpecLimit == LimitInit /\ [][GateNext]_vars

(***************************************************************************)
(* Direct calls of the gate on SELECT statements whose select list is      *)
(* built from a denylisted keyword, identifier characters and quotes: the  *)
(* keyword glued to an identifier, alone as an alias, or quoted in a       *)
(* string literal.                                                         *)
(***************************************************************************)
WordAlphabet == {"DROP", "drop", "x", "_", "'", " "}

WordInit ==
    /\ candidate \in {<<"SELECT", " ">> \o body :
                         body \in SeqsUpTo(WordAlphabet, MaxWordLen)}
    /\ verdict = <<>>
    /\ gate_pc = "called"
    /\ NoExtractCall
    /\ NoWorkflowRun
    /\ NoHandlerCalls
    /\ NoRunnerCall

SpecWord == WordInit /\ [][GateNext]_vars

(***************************************************************************)
(* The extractor called on an arbitrary text.                              *)
(***************************************************************************)
\* the atoms raw texts are built from
ExtractAlphabet == {"FENCE", "sql", "x", " ", "\n", "--", "/", "*"}

\* the two one-character atoms block comments are written with
CommentAlphabet == {"/", "*"}

ExtractInit ==
    /\ extract_arg \in SeqsUpTo(ExtractAlphabet, MaxExtractLen)
                          \cup SeqsUpTo(CommentAlphabet, MaxCommentLen)
    /\ extract_strip \in BOOLEAN
    /\ extract_ret = <<>>
    /\ extract_pc = "called"
    /\ candidate = <<>>
    /\ verdict = <<>>
    /\ gate_pc = "idle"
    /\ NoWorkflowRun
    /\ NoHandlerCalls
    /\ NoRunnerCall

Extract ==
    /\ extract_pc = "called"
    /\ extract_ret' = extract_sql_query(extract_arg, extract_strip)
    /\ extract_pc' = "returned"
    /\ UNCHANGED <<extract_arg, extract_strip, gate_vars, agent_vars,
                   handler_vars, runner_vars>>

ExtractNext == Extract

SpecExtract == ExtractInit /\ [][ExtractNext]_vars

(***************************************************************************)
(* Two request handlers that call the gate or the extractor at the same    *)
(* time.  A call runs one statement of the function per step, so the steps *)
(* of the two calls interleave in every order.  The only data a statement  *)
(* reads or writes is the parameter of the call it belongs to (q in        *)
(* _safe_sql, llm_output in extract_sql_query), which lives in the frame   *)
(* of that call; the two compiled patterns are module-level but are only   *)
(* read.                                                                   *)
(***************************************************************************)
\* the atoms the handlers' arguments are built from
CallAlphabet == {"SELECT", ";", "--"}

\* the functions a handler calls; the extractor is called as the workflow
\* calls it, with strip_comments=True
CallOps == {"_safe_sql", "extract_sql_query"}

\* the first statement of a function
FirstStatement(op) == IF op = "_safe_sql" THEN "strip" ELSE "unescape"

\* mutant: one variable shared by all calls, as a module-level q would be
Frame_shared(h) == 1

\* the frame that holds the parameter of handler h's call: its own
Frame(h) == h

\* one statement of _safe_sql or of extract_sql_query, run on the local
\* text q: the statement to run next, the new local text, and the value
\* returned if the statement returns
RunStatement(pc, q) ==
    CASE pc = "strip" ->
           [pc |-> "multi", q |-> strip(q), ret |-> <<>>]
      [] pc = "multi" ->
           IF IsMultiStatement(q)
           THEN [pc |-> "returned", q |-> q, ret |-> ErrMultipleStatements]
           ELSE [pc |-> "rstrip", q |-> q, ret |-> <<>>]
      [] pc = "rstrip" ->
           [pc |-> "select", q |-> strip(rstrip(q, ";")), ret |-> <<>>]
      [] pc = "select" ->
           IF ~startswith(lowerStr(q), "select")
           THEN [pc |-> "returned", q |-> q, ret |-> ErrNotASelect]
           ELSE [pc |-> "deny", q |-> q, ret |-> <<>>]
      [] pc = "deny" ->
           IF DENY_RE_search(q)
           THEN [pc |-> "returned", q |-> q, ret |-> ErrForbiddenKeyword]
           ELSE [pc |-> "limit", q |-> q, ret |-> <<>>]
      [] pc = "limit" ->
           LET r == IF ~HAS_LIMIT_TAIL_RE_search(q) THEN q \o LimitSuffix
                    ELSE q
           IN [pc |-> "returned", q |-> r, ret |-> r]
      [] pc = "unescape" ->
           [pc |-> "open_fence", q |-> unicode_escape(q), ret |-> <<>>]
      [] pc = "open_fence" ->
           [pc |-> "close_fence", q |-> StripOpeningFence(strip(q)),
            ret |-> <<>>]
      [] pc = "close_fence" ->
           [pc |-> "header", q |-> StripClosingFence(strip(q)), ret |-> <<>>]
      [] pc = "header" ->
           [pc |-> "comments", q |-> StripHeader(strip(q)), ret |-> <<>>]
      [] pc = "comments" ->
           [pc |-> "return",
            q |-> DropBlankLines(
                      SubBlockComments(
                          SubTrailingComments(
                              SubWholeLineComments(q, 1), 1), 1), 1, TRUE),
            ret |-> <<>>]
      [] pc = "return" ->
           [pc |-> "returned", q |-> q, ret |-> strip(q)]

HandlersInit ==
    /\ call_op \in [Handlers -> CallOps]
    /\ call_arg \in [Handlers -> SeqsUpTo(CallAlphabet, MaxCallLen)]
    /\ call_pc = [h \in Handlers |-> FirstStatement(call_op[h])]
    /\ frame_q = [h \in Handlers |-> call_arg[h]]
    /\ call_ret = [h \in Handlers |-> <<>>]
    /\ candidate = <<>>
    /\ verdict = <<>>
    /\ gate_pc = "idle"
    /\ NoExtractCall
    /\ NoWorkflowRun
    /\ NoRunnerCall

\* handler h runs the next statement of its call
Step(h) ==
    /\ call_pc[h] \notin {"idle", "returned"}
    /\ LET r == RunStatement(call_pc[h], frame_q[Frame(h)])
       IN /\ frame_q' = [frame_q EXCEPT ![Frame(h)] = r.q]
          /\ call_pc' = [call_pc EXCEPT ![h] = r.pc]
          /\ call_ret' = [call_ret EXCEPT ![h] = r.ret]
    /\ UNCHANGED <<call_op, call_arg, gate_vars, extract_vars, agent_vars,
                   runner_vars>>

HandlersNext == \E h \in Handlers : Step(h)

SpecHandlers == HandlersInit /\ [][HandlersNext]_vars

(***************************************************************************)
(* The agent workflow: one process_query run.  Each action is one node of  *)
(* the graph together with the conditional edge that follows it.           *)
(***************************************************************************)
\* "unsafe" in safety_result.lower(): the only atoms that hold these letters
\* are "unsafe" and "UNSAFE"
ContainsUnsafe(s) == \E i \in 1..Len(s) : lower(s[i]) = "unsafe"

\* str.replace('``````', ''): every pair of adjacent fences, left to right
RECURSIVE RemoveDoubleFences(_)
RemoveDoubleFences(s) ==
    IF Len(s) < 2 THEN s
    ELSE IF s[1] = "FENCE" /\ s[2] = "FENCE"
         THEN RemoveDoubleFences(SubSeq(s, 3, Len(s)))
         ELSE <<s[1]>> \o RemoveDoubleFences(Tail(s))

\* SQLQueryGenerator.generate_sql_query on the model's answer content:
\* the cleaned text, or <<>> for None (empty answer)
generate_sql_query(content) == strip(RemoveDoubleFences(strip(content)))

_should_continue_after_rewrite(err) ==
    IF err # "" THEN "error_handler" ELSE "schema_search"

_should_continue_after_schema(err) ==
    IF err # "" THEN "error_handler" ELSE "sql_generation"

\* mutant: the edge after sql_generation does not look at error_message
_should_continue_after_generation_ignores_error(err) == "query_validation"

_should_continue_after_generation(err) ==
    IF err # "" THEN "error_handler" ELSE "query_validation"

_should_continue_after_validation(err, vr) ==
    IF err # "" THEN "error_handler"
    ELSE IF vr.is_safe /\ query_runner THEN "query_execution"
    ELSE "END"

\* the retry bound of line 475
MaxRetries == 3

\* mutant: the retry test lets one more retry through
_should_retry_after_execution_one_more(err, retries) ==
    IF err # ""
    THEN (IF retries <= MaxRetries THEN "sql_generation" ELSE "error_handler")
    ELSE "chart_analysis"

\* the edge after query_execution: retry, give up, or go on
_should_retry_after_execution(err, retries) ==
    IF err # ""
    THEN (IF retries < MaxRetries THEN "sql_generation" ELSE "error_handler")
    ELSE "chart_analysis"

FlowInit ==
    /\ candidate = <<>>
    /\ verdict = <<>>
    /\ gate_pc = "idle"
    /\ NoExtractCall
    /\ NoHandlerCalls
    /\ NoRunnerCall
    /\ node = "rewrite_question"
    /\ query_runner \in BOOLEAN
    /\ modules_importable \in BOOLEAN
    /\ messages \in {1, 3}
    /\ InitialState

\* _rewrite_question_node, then _should_continue_after_rewrite
RewriteQuestion ==
    /\ node = "rewrite_question"
    /\ \E llm \in {"answers", "raises"} :
         LET err == IF messages <= 1 \/ llm = "answers"
                    THEN error_message
                    ELSE "Question rewriting failed"
         IN /\ error_message' = err
            /\ current_step' =
                 IF messages <= 1 THEN "question_rewriting_skipped"
                 ELSE IF llm = "answers" THEN "question_rewriting_complete"
                 ELSE "question_rewriting_failed"
            /\ node' = _should_continue_after_rewrite(err)
    /\ db_call' = <<>>
    /\ UNCHANGED db_event
    /\ UNCHANGED <<gate_vars, extract_vars, handler_vars, runner_vars, query_runner, modules_importable, messages,
                   raw_sql_query, cleaned_sql_query, validation_result,
                   execution_result, execution_data_json, is_complete,
                   retry_count, response, run_calls>>

\* _schema_search_node, then _should_continue_after_schema
SchemaSearch ==
    /\ node = "schema_search"
    /\ \E store \in {"answers", "raises"} :
         LET err == IF store = "answers" THEN "" ELSE "Schema search failed"
         IN /\ error_message' = err
            /\ current_step' = IF store = "answers"
                               THEN "schema_search_complete"
                               ELSE "schema_search_failed"
            /\ node' = _should_continue_after_schema(err)
    /\ db_call' = <<>>
    /\ UNCHANGED db_event
    /\ UNCHANGED <<gate_vars, extract_vars, handler_vars, runner_vars, query_runner, modules_importable, messages,
                   raw_sql_query, cleaned_sql_query, validation_result,
                   execution_result, execution_data_json, is_complete,
                   retry_count, response, run_calls>>

\* _sql_generation_node, then _should_continue_after_generation.  The
\* generator returns None when the model raises or answers nothing.
SqlGeneration ==
    /\ node = "sql_generation"
    /\ \E llm \in {"answers", "raises"}, content \in SeqsUpTo(FlowAlphabet, MaxRawLen) :
         LET raw_query == IF llm = "answers" THEN generate_sql_query(content)
                          ELSE <<>>
             err == IF raw_query = <<>> THEN "SQL generation failed" ELSE ""
         IN /\ raw_sql_query' = IF raw_query = <<>> THEN raw_sql_query
                                ELSE raw_query
            /\ error_message' = err
            /\ current_step' = IF raw_query = <<>>
                               THEN "sql_generation_failed"
                               ELSE "sql_generation_complete"
            /\ node' = _should_continue_after_generation(err)
    /\ db_call' = <<>>
    /\ UNCHANGED db_event
    /\ UNCHANGED <<gate_vars, extract_vars, handler_vars, runner_vars, query_runner, modules_importable, messages,
                   cleaned_sql_query, validation_result, execution_result,
                   execution_data_json, is_complete, retry_count, response,
                   run_calls>>

\* the validation_result dict of lines 272-276
ValidationResult(safety_result) ==
    [is_safe           |-> ~ContainsUnsafe(lowerStr(safety_result)),
     safety_message    |-> safety_result,
     has_syntax_errors |-> FALSE,
     present           |-> TRUE]

\* mutant: the gate is handed the generator's raw output, not the
\* extractor's
QueryValidation_gate_on_raw ==
    /\ node = "query_validation"
    /\ IF raw_sql_query = <<>>
       THEN /\ error_message' = "SQL generation returned no query."
            /\ current_step' = "query_validation_failed"
            /\ UNCHANGED <<cleaned_sql_query, validation_result>>
       ELSE IF ~modules_importable
       THEN /\ error_message' = "Query validation failed"
            /\ current_step' = "query_validation_failed"
            /\ UNCHANGED <<cleaned_sql_query, validation_result>>
       ELSE LET cleaned_query == extract_sql_query(raw_sql_query, TRUE)
                safety_result == _safe_sql(raw_sql_query)
            IN /\ cleaned_sql_query' = cleaned_query
               /\ validation_result' = ValidationResult(safety_result)
               /\ current_step' = "query_validation_complete"
               /\ error_message' = ""
    /\ node' = _should_continue_after_validation(error_message', validation_result')
    /\ db_call' = <<>>
    /\ UNCHANGED db_event
    /\ UNCHANGED <<gate_vars, extract_vars, handler_vars, runner_vars, query_runner, modules_importable, messages,
                   raw_sql_query, execution_result, execution_data_json,
                   is_complete, retry_count, response, run_calls>>

\* _query_validation_node, then _should_continue_after_validation
QueryValidation ==
    /\ node = "query_validation"
    /\ IF raw_sql_query = <<>>
       THEN /\ error_message' = "SQL generation returned no query."
            /\ current_step' = "query_validation_failed"
            /\ UNCHANGED <<cleaned_sql_query, validation_result>>
       ELSE IF ~modules_importable
       THEN /\ error_message' = "Query validation failed"
            /\ current_step' = "query_validation_failed"
            /\ UNCHANGED <<cleaned_sql_query, validation_result>>
       ELSE LET cleaned_query == extract_sql_query(raw_sql_query, TRUE)
                safety_result == _safe_sql(cleaned_query)
            IN /\ cleaned_sql_query' = cleaned_query
               /\ validation_result' = ValidationResult(safety_result)
               /\ current_step' = "query_validation_complete"
               /\ error_message' = ""
    /\ node' = _should_continue_after_validation(error_message', validation_result')
    /\ db_call' = <<>>
    /\ UNCHANGED db_event
    /\ UNCHANGED <<gate_vars, extract_vars, handler_vars, runner_vars, query_runner, modules_importable, messages,
                   raw_sql_query, execution_result, execution_data_json,
                   is_complete, retry_count, response, run_calls>>

\* what query_runner.run can do: return rows (a DataFrame, a list of dicts or
\* a dict), return an empty DataFrame or list, return None, return something
\* else (RedshiftSQLTool.run returns a str), or raise
RunOutcomes == {"rows", "no_rows", "none", "other", "raises"}

\* what can happen at the database during a run call: the query returns
\* rows or none, the engine rejects it, or no connection is made (the
\* connect call fails, the tunnel does not start, the settings are missing)
DbEvents == {"rows", "no_rows", "engine_rejects", "connect_fails",
             "tunnel_fails", "env_missing"}

\* the events that are failures at the database boundary
DbFailures == {"engine_rejects", "connect_fails", "tunnel_fails",
               "env_missing"}

\* the outcomes of query_runner.run that go with an event: RedshiftSQLTool
\* catches every exception and returns a str, with rows, without or with
\* "Error executing query: ..." ("other"); a runner that hands back the data
\* returns it when there is some and can only raise on a failure
RunnerCanReturn(result, ev) ==
    CASE result = "other"               -> TRUE
      [] result = "rows"                -> ev = "rows"
      [] result \in {"no_rows", "none"} -> ev = "no_rows"
      [] result = "raises"              -> ev \in DbFailures

\* _query_execution_node, then _should_retry_after_execution
QueryExecution ==
    /\ node = "query_execution"
    /\ IF ~query_runner
       THEN /\ execution_result' = "Query execution skipped - no query runner configured"
            /\ execution_data_json' = "error_object"
            /\ current_step' = "execution_skipped"
            /\ is_complete' = TRUE
            /\ UNCHANGED <<error_message, retry_count, run_calls, db_event>>
            /\ db_call' = <<>>
       ELSE \E result \in RunOutcomes, ev \in DbEvents :
            /\ RunnerCanReturn(result, ev)
            /\ db_event' = ev
            /\ db_call' = <<cleaned_sql_query>>
            /\ run_calls' = run_calls + 1
            /\ IF result = "raises"
               THEN /\ error_message' = "Query execution failed"
                    /\ current_step' = "execution_failed"
                    /\ retry_count' = retry_count + 1
                    /\ UNCHANGED <<execution_result, execution_data_json,
                                   is_complete>>
               ELSE /\ execution_result' =
                         CASE result \in {"rows", "no_rows"} -> "Query returned rows"
                           [] result = "none"  -> "No data returned"
                           [] result = "other" -> "Error: Query runner must return DataFrame, list[dict], or dict"
                    /\ execution_data_json' =
                         CASE result = "rows" -> "rows"
                           [] result \in {"no_rows", "none"} -> "empty_list"
                           [] result = "other" -> "error_object"
                    /\ current_step' = "execution_complete"
                    /\ is_complete' = FALSE
                    /\ error_message' = ""
                    /\ UNCHANGED retry_count
    /\ node' = _should_retry_after_execution(error_message', retry_count')
    /\ UNCHANGED <<gate_vars, extract_vars, handler_vars, runner_vars, query_runner, modules_importable, messages,
                   raw_sql_query, cleaned_sql_query, validation_result,
                   response>>

\* _chart_analysis_node, then the edge to END
ChartAnalysis ==
    /\ node = "chart_analysis"
    /\ \E llm \in {"answers", "raises"} :
         IF execution_data_json # "rows"
         THEN /\ current_step' = "chart_analysis_complete"
              /\ UNCHANGED error_message
         ELSE /\ current_step' = IF llm = "answers"
                                 THEN "chart_analysis_complete"
                                 ELSE "chart_analysis_failed"
              /\ error_message' = ""
    /\ messages' = messages + 1
    /\ is_complete' = TRUE
    /\ node' = "END"
    /\ db_call' = <<>>
    /\ UNCHANGED db_event
    /\ UNCHANGED <<gate_vars, extract_vars, handler_vars, runner_vars, query_runner, modules_importable,
                   raw_sql_query, cleaned_sql_query, validation_result,
                   execution_result, execution_data_json, retry_count,
                   response, run_calls>>

\* _error_handler_node, then the edge to END
ErrorHandler ==
    /\ node = "error_handler"
    /\ messages' = messages + 1
    /\ execution_result' = error_message
    /\ execution_data_json' = "error_object"
    /\ current_step' = "error_handled"
    /\ is_complete' = TRUE
    /\ node' = "END"
    /\ db_call' = <<>>
    /\ UNCHANGED db_event
    /\ UNCHANGED <<gate_vars, extract_vars, handler_vars, runner_vars, query_runner, modules_importable,
                   raw_sql_query, cleaned_sql_query, validation_result,
                   error_message, retry_count, response, run_calls>>

\* _format_response on the final state: what process_query returns
FormatResponse ==
    /\ node = "END"
    /\ response.status = "pending"
    /\ response' = IF error_message # ""
                   THEN [status |-> "failure", error |-> error_message]
                   ELSE [status |-> "success", error |-> ""]
    /\ db_call' = <<>>
    /\ UNCHANGED db_event
    /\ UNCHANGED <<gate_vars, extract_vars, handler_vars, runner_vars, node, query_runner, modules_importable,
                   messages, raw_sql_query, cleaned_sql_query,
                   validation_result, execution_result, execution_data_json,
                   error_message, current_step, is_complete, retry_count,
                   run_calls>>

Next ==
    \/ RewriteQuestion
    \/ SchemaSearch
    \/ SqlGeneration
    \/ QueryValidation
    \/ QueryExecution
    \/ ChartAnalysis
    \/ ErrorHandler
    \/ FormatResponse

Init == FlowInit

Spec == Init /\ [][Next]_vars

\* the nodes of the graph, and its end
NodeNames == {"rewrite_question", "schema_search", "sql_generation",
              "query_validation", "query_execution", "chart_analysis",
              "error_handler", "END"}

\* the run is not over: a node is still to be run, or the final state is
\* still to be formatted.  These are the states in which Next is enabled.
Running == node # "END" \/ response.status = "pending"

\* what a step of the run looks like from outside: the graph hands over to
\* another node, or process_query returns its response.  Every step of Next
\* is one of the two.
Advance ==
    /\ Running
    /\ IF node # "END"
       THEN /\ node' \in NodeNames \ {node}
            /\ UNCHANGED response
       ELSE /\ response' \in {[status |-> "success", error |-> ""],
                              [status |-> "failure", error |-> error_message]}
            /\ UNCHANGED node

\* a run whose external calls all return: a node that was entered hands
\* over to the next one, and process_query formats the final state
SpecLive == Init /\ [][Next]_vars /\ WF_<<node, response>>(Advance)

(***************************************************************************)
(* One call of RedshiftSQLTool._run, statement by statement.  The tunnel   *)
(* and the connection are the two resources of the call: tunnel_state and  *)
(* conn_state tell what became of them, run_tunnel and run_conn tell       *)
(* whether the locals tunnel and conn of _run are bound to them.           *)
(***************************************************************************)
\* sql_query.strip().lower().startswith("select") (line 33)
IsSelectQuery(sql) == startswith(lowerStr(strip(sql)), "select")

RunInit ==
    /\ run_sql \in SeqsUpTo(FlowAlphabet, MaxRawLen)
    /\ run_pc = "check_env"
    /\ run_conn = FALSE
    /\ run_tunnel = FALSE
    /\ tunnel_state = "none"
    /\ conn_state = "none"
    /\ run_ret = ""
    /\ candidate = <<>>
    /\ verdict = <<>>
    /\ gate_pc = "idle"
    /\ NoExtractCall
    /\ NoWorkflowRun
    /\ NoHandlerCalls

\* _get_connection, lines 65-79: the settings are read; a missing one
\* raises
CheckEnv ==
    /\ run_pc = "check_env"
    /\ \E settings_present \in BOOLEAN :
         run_pc' = IF settings_present THEN "start_tunnel" ELSE "except"
    /\ UNCHANGED <<run_sql, run_conn, run_tunnel, tunnel_state, conn_state,
                   run_ret, gate_vars, extract_vars, agent_vars,
                   handler_vars>>

\* _get_connection, lines 82-90: the forwarder is built and started, or
\* tunnel.start() raises
StartTunnel ==
    /\ run_pc = "start_tunnel"
    /\ \E starts \in BOOLEAN :
         IF starts
         THEN /\ tunnel_state' = "started"
              /\ run_pc' = "connect"
         ELSE /\ run_pc' = "except"
              /\ UNCHANGED tunnel_state
    /\ UNCHANGED <<run_sql, run_conn, run_tunnel, conn_state, run_ret,
                   gate_vars, extract_vars, agent_vars, handler_vars>>

\* _get_connection, lines 92-103, and the assignment of line 30:
\* psycopg2.connect returns and conn, tunnel are bound, or it raises and
\* line 30 binds nothing
Connect ==
    /\ run_pc = "connect"
    /\ \E connects \in BOOLEAN :
         IF connects
         THEN /\ conn_state' = "open"
              /\ run_conn' = TRUE
              /\ run_tunnel' = TRUE
              /\ run_pc' = "query"
         ELSE /\ run_pc' = "except"
              /\ UNCHANGED <<conn_state, run_conn, run_tunnel>>
    /\ UNCHANGED <<run_sql, tunnel_state, run_ret, gate_vars, extract_vars,
                   agent_vars, handler_vars>>

\* lines 33-47: the query is run with pandas or with a cursor, and the
\* text to return is built, or the engine rejects the query
RunQuery ==
    /\ run_pc = "query"
    /\ \E outcome \in {"rows", "no_rows", "raises"} :
         IF outcome = "raises"
         THEN /\ run_pc' = "except"
              /\ UNCHANGED run_ret
         ELSE /\ run_pc' = "finally"
              /\ run_ret' =
                   IF ~IsSelectQuery(run_sql)
                   THEN "Query executed successfully."
                   ELSE IF outcome = "no_rows"
                   THEN "Query executed successfully but returned no results."
                   ELSE "Query returned rows"
    /\ UNCHANGED <<run_sql, run_conn, run_tunnel, tunnel_state, conn_state,
                   gate_vars, extract_vars, agent_vars, handler_vars>>

\* lines 49-50
Except ==
    /\ run_pc = "except"
    /\ run_ret' = "Error executing query"
    /\ run_pc' = "finally"
    /\ UNCHANGED <<run_sql, run_conn, run_tunnel, tunnel_state, conn_state,
                   gate_vars, extract_vars, agent_vars, handler_vars>>

\* lines 52-56, then the return
Finally ==
    /\ run_pc = "finally"
    /\ conn_state' = IF run_conn THEN "closed" ELSE conn_state
    /\ tunnel_state' = IF run_tunnel THEN "stopped" ELSE tunnel_state
    /\ run_pc' = "returned"
    /\ UNCHANGED <<run_sql, run_conn, run_tunnel, run_ret, gate_vars,
                   extract_vars, agent_vars, handler_vars>>

RunNext ==
    \/ CheckEnv
    \/ StartTunnel
    \/ Connect
    \/ RunQuery
    \/ Except
    \/ Finally

SpecRun == RunInit /\ [][RunNext]_vars

(***************************************************************************)
(* Vocabulary of the properties of the gate.                               *)
(***************************************************************************)
Rejections == {ErrMultipleStatements, ErrNotASelect, ErrForbiddenKeyword}

\* the call has returned
Returned == gate_pc = "returned"

\* the call has returned a normalized query
Accepted == Returned /\ verdict \notin Rejections

\* the candidate after trimming
Trimmed == strip(candidate)

\* number of ';' in s
Semicolons(s) == Cardinality({i \in 1..Len(s) : s[i] = ";"})

\* s[i] is a whole word: no \w character touches it on either side
WholeWordAt(s, i) ==
    /\ i = 1 \/ ~IsWord(s[i - 1])
    /\ i = Len(s) \/ ~IsWord(s[i + 1])

\* s has a denylisted keyword, in any letter case, as a whole word
HasDenyWord(s) ==
    \E i \in 1..Len(s) :
        /\ \E w \in {"INSERT", "UPDATE", "DELETE", "ALTER", "DROP", "CREATE",
                     "REPLACE", "TRUNCATE"} : upper(s[i]) = w
        /\ WholeWordAt(s, i)

\* the first token of s is the keyword SELECT, in any letter case
FirstTokenIsSelect(s) ==
    /\ s # <<>>
    /\ lower(s[1]) = "select"
    /\ WholeWordAt(s, 1)

(***************************************************************************)
(* C3: a candidate that, after trimming, has exactly one ';' and not as    *)
(* its last character is rejected as MultipleStatements.                   *)
(* The code accepts it: line 10 only tests for two or more ';' and for a   *)
(* trailing ';' that follows another one.                                  *)
(***************************************************************************)
C3_InteriorSemicolonRejected ==
    (Returned /\ Semicolons(Trimmed) = 1 /\ ~endswith(Trimmed, ";"))
        => verdict = ErrMultipleStatements

C5_AcceptedIsOneStatement ==
    Accepted => Semicolons(verdict) = 0

(***************************************************************************)
(* C6: a candidate whose first token, after trimming, is not SELECT is     *)
(* rejected as NotASelect.                                                 *)
(* The code tests the prefix "select", not the token: "SELECTx" passes.    *)
(***************************************************************************)
C6_NonSelectRejected ==
    (Returned /\ Trimmed # <<>> /\ ~FirstTokenIsSelect(Trimmed))
        => verdict = ErrNotASelect

(***************************************************************************)
(* C7 as stated: a candidate with a denylisted whole word is rejected as   *)
(* ForbiddenKeyword.                                                       *)
(***************************************************************************)
C7_Original ==
    (Returned /\ HasDenyWord(candidate)) => verdict = ErrForbiddenKeyword

(***************************************************************************)
(* C7 amended: a candidate with a denylisted whole word that starts, after *)
(* trimming, with SELECT and has at most one ';' is rejected as            *)
(* ForbiddenKeyword; the two earlier rules decide the other candidates.    *)
(***************************************************************************)
C7_DenyWordInSelectRejected ==
    (/\ Returned
     /\ HasDenyWord(candidate)
     /\ Trimmed # <<>> /\ lower(Trimmed[1]) = "select"
     /\ Semicolons(candidate) <= 1)
        => verdict = ErrForbiddenKeyword

\* a lower-case denylisted word inside a SELECT was rejected as ForbiddenKeyword
C7_Witness ==
    /\ Returned
    /\ candidate = <<"SELECT", " ", "x", " ", "drop">>
    /\ verdict = ErrForbiddenKeyword

(***************************************************************************)
(* C8: a candidate with two or more ';' is rejected as MultipleStatements, *)
(* whatever else it contains.                                              *)
(***************************************************************************)
C8_TwoSemicolonsRejected ==
    (Returned /\ Semicolons(candidate) >= 2) => verdict = ErrMultipleStatements

\* a SELECT with two interior ';' and a denylisted word was rejected as
\* MultipleStatements
C8_Witness ==
    /\ Returned
    /\ candidate = <<"SELECT", ";", "DROP", ";", "x">>
    /\ verdict = ErrMultipleStatements

(***************************************************************************)
(* C9: an accepted query has no denylisted keyword as a whole word, in any *)
(* letter case; the appended " LIMIT 5" does not introduce one.            *)
(***************************************************************************)
C9_AcceptedHasNoDenyWord ==
    Accepted => ~HasDenyWord(verdict)

\* a query that got " LIMIT 5" appended and whose only denylisted letters
\* are part of a longer identifier was accepted
C9_Witness ==
    /\ Accepted
    /\ candidate = <<"SELECT", " ", "DROP", "x">>
    /\ verdict = candidate \o LimitSuffix

(***************************************************************************)
(* C10: an accepted query begins with the keyword SELECT as its first      *)
(* token, with no white space before it.                                   *)
(* The code accepts a first token that only starts with the letters of     *)
(* SELECT (see C6).                                                        *)
(***************************************************************************)
C10_AcceptedBeginsWithSelect ==
    Accepted => FirstTokenIsSelect(verdict)

(***************************************************************************)
(* C1: a candidate the gate rejected is never handed to query_runner.run.  *)
(* The code derives is_safe from the word "unsafe", which none of the      *)
(* three rejection messages contains, so a rejected candidate is executed. *)
(***************************************************************************)
C1_RejectedNeverExecuted ==
    db_call # <<>> => validation_result.safety_message \notin Rejections

(***************************************************************************)
(* C2: every string handed to query_runner.run is the normalized query an  *)
(* accepting call of the gate returned.                                    *)
(* The code runs cleaned_sql_query, the extractor's output, instead.       *)
(***************************************************************************)
C2_OnlyNormalizedExecuted ==
    \A i \in 1..Len(db_call) :
        /\ validation_result.present
        /\ validation_result.safety_message \notin Rejections
        /\ db_call[i] = validation_result.safety_message

(***************************************************************************)
(* Vocabulary of the properties of the row cap and of the messages.        *)
(***************************************************************************)
\* s trimmed, freed of one trailing ';' and trimmed again
Normalized(s) ==
    LET t == strip(s)
    IN IF t # <<>> /\ t[Len(t)] = ";"
       THEN strip(SubSeq(t, 1, Len(t) - 1))
       ELSE t

\* t is the argument of a row cap: white space and a number, optionally
\* followed by a comma and a second number
IsLimitArgument(t) ==
    \E a \in 1..Len(t) :
        /\ \A k \in 1..a : t[k] \in Whitespace
        /\ \/ /\ a < Len(t)
              /\ \A k \in (a + 1)..Len(t) : t[k] \in Digits
           \/ \E c \in (a + 2)..(Len(t) - 1) :
                /\ t[c] = ","
                /\ \E b \in (a + 1)..(c - 1) :
                     /\ \A k \in (a + 1)..b : t[k] \in Digits
                     /\ \A k \in (b + 1)..(c - 1) : t[k] \in Whitespace
                /\ \E d \in (c + 1)..Len(t) :
                     /\ \A k \in (c + 1)..(d - 1) : t[k] \in Whitespace
                     /\ \A k \in d..Len(t) : t[k] \in Digits

\* the last tokens of s are LIMIT <n> or LIMIT <n>,<m>, with LIMIT a whole
\* word in any letter case
EndsWithLimitClause(s) ==
    \E i \in 1..Len(s) :
        /\ lower(s[i]) = "limit"
        /\ WholeWordAt(s, i)
        /\ IsLimitArgument(SubSeq(s, i + 1, Len(s)))

\* " LIMIT 5", as the specification writes it
Cap5 == <<" ", "LIMIT", " ", "5">>

\* number of LIMIT atoms of s, in any letter case
Limits(s) == Cardinality({i \in 1..Len(s) : lower(s[i]) = "limit"})

\* s starts with the letters of SELECT, in any letter case
StartsWithSelectLetters(s) == s # <<>> /\ lower(s[1]) = "select"

\* the candidate has no ';' other than one last character
NoInteriorSemicolon ==
    \/ Semicolons(Trimmed) = 0
    \/ Semicolons(Trimmed) = 1 /\ Trimmed[Len(Trimmed)] = ";"

\* m reads "Error: <description>"
IsErrorForm(m) ==
    /\ Len(m) > 3
    /\ m[1] = "Error" /\ m[2] = ":" /\ m[3] = " "

(***************************************************************************)
(* C11: an accepted query ends with a row cap: its last tokens are         *)
(* LIMIT <n>, optionally followed by ,<m>, either taken over from the      *)
(* candidate or appended as " LIMIT 5".                                    *)
(***************************************************************************)
C11_AcceptedEndsWithLimit ==
    Accepted => EndsWithLimitClause(verdict)

\* a candidate that ends with a two-number cap was accepted as it is
C11_Witness ==
    /\ Accepted
    /\ candidate = <<"SELECT", " ", "LIMIT", " ", "1", ",", "1">>
    /\ verdict = candidate

(***************************************************************************)
(* C12: the gate is idempotent: the gate applied to an accepted query      *)
(* accepts it and returns it unchanged, so no second LIMIT is appended.    *)
(***************************************************************************)
C12_Idempotent ==
    Accepted => /\ _safe_sql(verdict) = verdict
                /\ Limits(_safe_sql(verdict)) = Limits(verdict)

\* a query that got the cap appended after a LIMIT that is not its last
\* clause is returned unchanged by a second call
C12_Witness ==
    /\ Accepted
    /\ candidate = <<"SELECT", " ", "LIMIT", " ", "x">>
    /\ verdict = candidate \o Cap5
    /\ _safe_sql(verdict) = verdict

(***************************************************************************)
(* C13: the rules are applied in a fixed order and the first that matches  *)
(* decides the reason: two or more ';' give MultipleStatements whatever    *)
(* else the candidate holds; a candidate with no interior ';' that does    *)
(* not start with SELECT gives NotASelect even when it holds a denylisted  *)
(* word; ForbiddenKeyword is only given to a candidate that passed both    *)
(* earlier rules.                                                          *)
(***************************************************************************)
C13_FirstMatchingRuleDecides ==
    Returned =>
        /\ Semicolons(candidate) >= 2 => verdict = ErrMultipleStatements
        /\ (/\ NoInteriorSemicolon
            /\ ~StartsWithSelectLetters(Normalized(candidate)))
              => verdict = ErrNotASelect
        /\ verdict = ErrNotASelect => Semicolons(candidate) < 2
        /\ verdict = ErrForbiddenKeyword =>
              /\ Semicolons(candidate) < 2
              /\ StartsWithSelectLetters(Normalized(candidate))

\* a statement that opens with a denylisted word was rejected as NotASelect
C13_Witness ==
    /\ Returned
    /\ candidate = <<"DROP", " ", "x">>
    /\ HasDenyWord(candidate)
    /\ verdict = ErrNotASelect

(***************************************************************************)
(* C14: an accepted candidate that does not end with a row cap is returned *)
(* trimmed and freed of its trailing ';', with " LIMIT 5" appended and     *)
(* nothing else changed; so is a candidate whose LIMIT is not its last     *)
(* clause, which ends up with two LIMITs.                                  *)
(***************************************************************************)
C14_LimitInjected ==
    (Accepted /\ ~EndsWithLimitClause(Normalized(candidate)))
        => verdict = Normalized(candidate) \o Cap5

\* a candidate whose LIMIT is followed by another clause got a second LIMIT
C14_Witness ==
    /\ Accepted
    /\ candidate = <<"SELECT", " ", "LIMIT", " ", "1", " ", "x">>
    /\ verdict = candidate \o Cap5
    /\ Limits(verdict) = 2

(***************************************************************************)
(* C15: an accepted candidate that already ends with LIMIT <n> or          *)
(* LIMIT <n>,<m>, in any letter case, is returned trimmed and freed of its *)
(* trailing ';' but otherwise unchanged: the caller's number is kept.      *)
(***************************************************************************)
C15_LimitPreserved ==
    (Accepted /\ EndsWithLimitClause(Normalized(candidate)))
        => verdict = Normalized(candidate)

\* an upper-case cap followed by a ';' was kept and the ';' dropped
C15_Witness ==
    /\ Accepted
    /\ candidate = <<"SELECT", " ", "LIMIT", " ", "1", ";">>
    /\ verdict = <<"SELECT", " ", "LIMIT", " ", "1">>

(***************************************************************************)
(* C16: a single trailing ';' is tolerated: for a statement s without ';'  *)
(* the gate returns for s followed by ';' what it returns for s, and the   *)
(* ';' is not in the result.                                               *)
(***************************************************************************)
C16_TrailingSemicolonTolerated ==
    (/\ Returned
     /\ candidate # <<>>
     /\ candidate[Len(candidate)] = ";"
     /\ Semicolons(candidate) = 1)
        => /\ verdict = _safe_sql(SubSeq(candidate, 1, Len(candidate) - 1))
           /\ Semicolons(verdict) = 0

\* "SELECT 1;" gave "SELECT 1 LIMIT 5"
C16_Witness ==
    /\ Returned
    /\ candidate = <<"SELECT", " ", "1", ";">>
    /\ verdict = <<"SELECT", " ", "1", " ", "LIMIT", " ", "5">>

(***************************************************************************)
(* C17: the gate returns for every candidate, and what it returns is       *)
(* either one of the three rejection messages, each of which reads         *)
(* "Error: <description>", or a normalized query, which starts with        *)
(* SELECT and therefore never reads like a rejection message.              *)
(***************************************************************************)
C17_ClosedErrorSet ==
    /\ Cardinality(Rejections) = 3
    /\ \A m \in Rejections : IsErrorForm(m)
    /\ Returned =>
          /\ verdict # <<>>
          /\ IsErrorForm(verdict) <=> verdict \in Rejections
          /\ verdict \notin Rejections => StartsWithSelectLetters(verdict)

\* the empty candidate was answered with the NotASelect message
C17_Witness ==
    /\ Returned
    /\ candidate = <<>>
    /\ verdict = ErrNotASelect
    /\ IsErrorForm(verdict)

(***************************************************************************)
(* C18: in the workflow the extractor runs before the gate and never       *)
(* instead of it: whenever the run stands at query_execution, or has just  *)
(* called the database, the cleaned query is what extract_sql_query made   *)
(* of the generator's raw output, and the recorded result of the gate is   *)
(* what _safe_sql made of that cleaned query.                              *)
(***************************************************************************)
C18_ExtractorThenGate ==
    (node = "query_execution" \/ db_call # <<>>) =>
        /\ validation_result.present
        /\ cleaned_sql_query = extract_sql_query(raw_sql_query, TRUE)
        /\ validation_result.safety_message = _safe_sql(cleaned_sql_query)

\* the run stands at query_execution with a raw output whose comment the
\* extractor removed before the gate appended the row cap
C18_Witness ==
    /\ node = "query_execution"
    /\ raw_sql_query = <<"SELECT", "--">>
    /\ cleaned_sql_query = <<"SELECT">>
    /\ validation_result.safety_message = <<"SELECT", " ", "LIMIT", " ", "5">>

(***************************************************************************)
(* Vocabulary of the properties of the extractor.                          *)
(***************************************************************************)
\* the call of the extractor has returned
Extracted == extract_pc = "returned"

\* s, once trimmed, is wrapped in a code fence: it opens with a fence, with
\* or without the sql tag, closes with a fence, and has no fence in between
IsFenced(s) ==
    LET t == strip(s)
    IN /\ Len(t) >= 2
       /\ t[1] = "FENCE"
       /\ t[Len(t)] = "FENCE"
       /\ \A i \in 2..(Len(t) - 1) : t[i] # "FENCE"

\* the opening fence of s carries the sql tag
HasSqlTag(s) ==
    LET t == strip(s)
    IN Len(t) >= 2 /\ lower(t[2]) = "sql"

\* s holds no fence marker
NoFence(s) == \A i \in 1..Len(s) : s[i] # "FENCE"

\* s has no white space at either end
IsTrimmed(s) == s = <<>> \/ (s[1] \notin Whitespace /\ s[Len(s)] \notin Whitespace)

\* s holds no "--" comment, whole-line or trailing
NoLineComment(s) == \A i \in 1..Len(s) : s[i] # "--"

\* s holds no block comment: no "/*" with a "*/" after it
NoBlockComment(s) ==
    ~\E i \in 1..Len(s), j \in 1..Len(s) :
        /\ i + 1 < j /\ j < Len(s)
        /\ s[i] = "/" /\ s[i + 1] = "*"
        /\ s[j] = "*" /\ s[j + 1] = "/"

\* s has no empty or white-space-only line
NoBlankLine(s) ==
    /\ s # <<>> => (s[1] # "\n" /\ s[Len(s)] # "\n")
    /\ \A i \in 1..Len(s), j \in 1..Len(s) :
         (i < j /\ s[i] = "\n" /\ s[j] = "\n")
            => \E k \in (i + 1)..(j - 1) : s[k] \notin Whitespace

\* the atoms comments are written with
IsCommentAtom(a) == a \in {"--", "/", "*"}

\* the comment delimiters of s, in order
CommentAtoms(s) == SelectSeq(s, IsCommentAtom)

(***************************************************************************)
(* C19: a text wrapped in a markdown code fence, opened with or without    *)
(* the sql tag, is returned without either fence marker and trimmed.       *)
(* The code only removes an opening fence that carries the sql tag: the    *)
(* fence of a text opened with a bare fence stays in the result.           *)
(***************************************************************************)
C19_FencesStripped ==
    (Extracted /\ IsFenced(extract_arg))
        => (NoFence(extract_ret) /\ IsTrimmed(extract_ret))

(***************************************************************************)
(* C20: with strip_comments set, the returned text holds no "--" comment,  *)
(* no block comment and no blank line; with strip_comments unset, the      *)
(* comment delimiters of the text are all kept, in order.                  *)
(* The code removes block comments in one pass and puts nothing in their   *)
(* place, so the text on both sides of a removed comment can join into a   *)
(* new comment, which stays in the result.                                 *)
(***************************************************************************)
C20_CommentsStripped ==
    Extracted =>
        IF extract_strip
        THEN /\ NoLineComment(extract_ret)
             /\ NoBlockComment(extract_ret)
             /\ NoBlankLine(extract_ret)
        ELSE CommentAtoms(extract_ret) = CommentAtoms(extract_arg)

\* what a call of op on arg returns when it runs alone
RunAlone(op, arg) ==
    IF op = "_safe_sql" THEN _safe_sql(arg) ELSE extract_sql_query(arg, TRUE)

\* handler h's call has returned
CallReturned(h) == call_pc[h] = "returned"

(***************************************************************************)
(* C21: the gate and the extractor are pure.  Whatever the interleaving of *)
(* two concurrent calls, each call returns what it returns when run alone, *)
(* and two calls of the same function on the same argument return the same *)
(* value.                                                                  *)
(***************************************************************************)
C21_CallsDoNotInterfere ==
    /\ \A h \in Handlers :
           CallReturned(h) => call_ret[h] = RunAlone(call_op[h], call_arg[h])
    /\ \A g, h \in Handlers :
           (/\ CallReturned(g) /\ CallReturned(h)
            /\ call_op[g] = call_op[h] /\ call_arg[g] = call_arg[h])
               => call_ret[g] = call_ret[h]

\* a gate call and an extractor call on different texts have both returned,
\* the gate call with the capped query and the extractor call with the text
\* without its comment
C21_Witness ==
    /\ call_op[1] = "_safe_sql" /\ call_arg[1] = <<"SELECT">>
    /\ call_op[2] = "extract_sql_query" /\ call_arg[2] = <<"SELECT", "--">>
    /\ CallReturned(1) /\ CallReturned(2)
    /\ call_ret[1] = <<"SELECT">> \o LimitSuffix
    /\ call_ret[2] = <<"SELECT">>

\* the step taken is query_execution ending in its failure branch
\* (lines 340-345)
ExecutionFails ==
    node = "query_execution" /\ error_message' # ""

\* the step taken leads back to sql_generation after an execution
RetryTaken ==
    node = "query_execution" /\ node' = "sql_generation"

(***************************************************************************)
(* C22: within one process_query run the workflow goes back to             *)
(* sql_generation only while retry_count is below 3, retry_count grows by  *)
(* one on every execution failure and never decreases, query_runner.run is *)
(* called at most 3 times, and the run always reaches END, provided every  *)
(* external call returns.                                                  *)
(***************************************************************************)
C22_BoundedRetryAndTermination ==
    /\ [](run_calls <= 3 /\ retry_count <= 3)
    /\ [][/\ retry_count' >= retry_count
          /\ ExecutionFails => retry_count' = retry_count + 1
          /\ RetryTaken => (ExecutionFails /\ retry_count' < 3)]_vars
    /\ <>(node = "END")

\* a run that failed three times at execution and was then ended by the
\* error handler
C22_Witness ==
    /\ node = "END"
    /\ run_calls = 3
    /\ retry_count = 3
    /\ current_step = "error_handled"

\* process_query has returned
Responded == response.status # "pending"

(***************************************************************************)
(* C23: when the last query_runner.run call of a run met a failure at the  *)
(* database (no connection, or the engine rejected the query), the         *)
(* response of the run is a failure that carries an error, never a         *)
(* success.                                                                *)
(* RedshiftSQLTool._run catches every exception and returns the text       *)
(* "Error executing query: ..."; the execution node takes the text for a   *)
(* result of the wrong type, clears error_message and goes on to           *)
(* chart_analysis, so the run is reported as a success.                    *)
(***************************************************************************)
C23_DatabaseFailureReported ==
    (Responded /\ db_event \in DbFailures)
        => (response.status = "failure" /\ response.error # "")

\* s[i] is a denylisted keyword, in any letter case
KeywordAt(s, i) == upper(s[i]) \in DenyWords

\* s[i] is part of a longer identifier: a letter, a digit or an underscore
\* touches it on one side at least
InLongerIdentifier(s, i) ==
    \/ i > 1 /\ IsWord(s[i - 1])
    \/ i < Len(s) /\ IsWord(s[i + 1])

\* s[i] is the whole text of a string literal
InStringLiteral(s, i) ==
    /\ i > 1 /\ s[i - 1] = "'"
    /\ i < Len(s) /\ s[i + 1] = "'"

\* s[i] is an alias: a word of its own that follows an expression and a
\* space
IsAlias(s, i) ==
    /\ i > 2 /\ s[i - 1] = " " /\ (IsWord(s[i - 2]) \/ s[i - 2] = "'")
    /\ i = Len(s) \/ s[i + 1] = " "

(***************************************************************************)
(* C24: the denylist matches whole words only.  A SELECT statement whose   *)
(* denylisted keywords all stand inside longer identifiers is not rejected *)
(* with the forbidden-keyword message, and one that has a keyword as the   *)
(* text of a string literal or as an alias is rejected with it.            *)
(***************************************************************************)
C24_WholeWordOnly ==
    (Returned /\ FirstTokenIsSelect(Trimmed) /\ Semicolons(candidate) = 0) =>
        /\ (\A i \in 1..Len(candidate) :
                KeywordAt(candidate, i) => InLongerIdentifier(candidate, i))
               => verdict # ErrForbiddenKeyword
        /\ (\E i \in 1..Len(candidate) :
                /\ KeywordAt(candidate, i)
                /\ InStringLiteral(candidate, i) \/ IsAlias(candidate, i))
               => verdict = ErrForbiddenKeyword

\* 'SELECT DROP_x', a column whose name starts with a keyword, is accepted
C24_Witness ==
    /\ candidate = <<"SELECT", " ", "DROP", "_", "x">>
    /\ Returned
    /\ verdict = candidate \o LimitSuffix

(***************************************************************************)
(* C25: once query_validation has filled validation_result, is_safe is     *)
(* TRUE exactly when _safe_sql accepted the extracted candidate, and FALSE *)
(* for each of the three rejection messages.                               *)
(* The code sets is_safe to '"unsafe" not in safety_result.lower()'.  No   *)
(* rejection message holds that word, so is_safe is TRUE for all three,    *)
(* and it is FALSE for an accepted query that mentions the word.           *)
(***************************************************************************)
C25_IsSafeAgreesWithGate ==
    validation_result.present =>
        (validation_result.is_safe
            <=> _safe_sql(cleaned_sql_query) \notin Rejections)

(***************************************************************************)
(* C26: when RedshiftSQLTool._run returns, no tunnel it started is still   *)
(* running and no connection it opened is still open, whatever happened    *)
(* in between.                                                             *)
(* When psycopg2.connect raises, _get_connection has started the tunnel    *)
(* but returns nothing, so the local tunnel of _run is still None and the  *)
(* finally block does not stop the tunnel.                                 *)
(***************************************************************************)
C26_RunReleasesResources ==
    run_pc = "returned" => (tunnel_state # "started" /\ conn_state # "open")

\* the nodes that come before the execution of the query
NodesBeforeExecution ==
    {"rewrite_question", "schema_search", "sql_generation", "query_validation"}

(***************************************************************************)
(* C27: when rewrite_question, schema_search, sql_generation or            *)
(* query_validation ends with a non-empty error_message, the next node is  *)
(* error_handler; error_handler keeps the message, calls no query runner   *)
(* and leads to END; and the response built after error_handler is a       *)
(* failure that carries that message, with no query runner call made in    *)
(* between.                                                                *)
(***************************************************************************)
C27_ErrorRouting ==
    [][/\ (node \in NodesBeforeExecution /\ error_message' # "")
              => node' = "error_handler"
       /\ node = "error_handler"
              => /\ node' = "END"
                 /\ error_message # ""
                 /\ error_message' = error_message
                 /\ run_calls' = run_calls
                 /\ db_call' = <<>>
       /\ (node = "END" /\ current_step = "error_handled")
              => /\ response' = [status |-> "failure", error |-> error_message]
                 /\ run_calls' = run_calls
                 /\ db_call' = <<>>]_vars

\* a run in which sql_generation failed: it was ended by the error handler
\* without any query runner call and answered with the failure
C27_Witness ==
    /\ response = [status |-> "failure", error |-> "SQL generation failed"]
    /\ current_step = "error_handled"
    /\ node = "END"
    /\ run_calls = 0

====
